---- MODULE Spec2Model ----
(***************************************************************************)
(* The reliability layer of the messenger465 client                        *)
(* (src/messenger465_client.py, class MessageBoardNetwork): framing with a *)
(* 3-byte header, XOR checksum, the two-slot sequence register, and the    *)
(* bounded send / select / parse retry loop of _communicate.               *)
(*                                                                         *)
(* A str is a sequence of code points, a bytes object a sequence of        *)
(* numbers in 0..255.  An exception is a record with a "type" field.       *)
(***************************************************************************)
EXTENDS Integers, Sequences, FiniteSets, TLC

\* ------------------------------------------------------------------ bounds

\* Largest value of --retries the model constructs an instance with.
MaxRetries == 1

\* Number of logical requests (get_messages / post_message calls) in a run.
MaxRequests == 2

\* Datagrams that can be in flight towards one socket at a time.
MaxInFlight == 1

\* Longest request text the codec specification draws.
MaxLen == 2

\* Longest foreign datagram the codec specification delivers.
MaxDatagramLen == 4

\* Longest response text of the envelope specification, in tokens.
MaxTokens == 4

\* Most fields the peer joins into one payload.
MaxFields == 6

\* Most Return key events waiting in the event queue.
MaxSubmitted == 1

\* ------------------------------------------------------- program constants

\* VERSION = b'C'
VERSION == 67

\* BUFFER_LENGTH = 1400
BUFFER_LENGTH == 1400

\* sequences = collections.deque((b'0', b'1')), as first constructed
InitialSequences == <<48, 49>>

\* The two MessageBoardNetwork objects of the process.
Instances == {1, 2}

\* ------------------------------------------------------------ text literals

GET_TEXT == <<71, 69, 84>>
POST_PREFIX == <<80, 79, 83, 84, 32>>
POST_SEPARATOR == <<32, 58, 58, 32>>
OK_TEXT == <<79, 75>>
ERROR_TEXT == <<69, 82, 82, 79, 82>>
SPACE == <<32>>
FIELD_SEPARATOR == <<58, 58>>

\* ------------------------------------------------------------ str <-> bytes

\* str.encode(): UTF-8, one byte below U+0080, two bytes below U+0800.
\* The model draws no code point from U+0800 on.
RECURSIVE Utf8Encode(_)
Utf8Encode(s) ==
    IF s = <<>> THEN <<>>
    ELSE LET c == Head(s)
         IN  (IF c < 128 THEN <<c>>
              ELSE <<192 + (c \div 64), 128 + (c % 64)>>) \o Utf8Encode(Tail(s))

\* Whether bytes.decode() accepts b.  Lead bytes 0xC2..0xDF need one
\* continuation byte 0x80..0xBF; 0x80..0xC1 never start a character.
\* The model draws no byte from 0xE0 on.
RECURSIVE Utf8Valid(_)
Utf8Valid(b) ==
    IF b = <<>> THEN TRUE
    ELSE IF b[1] < 128 THEN Utf8Valid(Tail(b))
    ELSE IF b[1] >= 194 /\ b[1] <= 223 /\ Len(b) >= 2
    THEN b[2] >= 128 /\ b[2] <= 191 /\ Utf8Valid(Tail(Tail(b)))
    ELSE FALSE

\* bytes.decode() of a b that Utf8Valid accepts.
RECURSIVE Utf8Decode(_)
Utf8Decode(b) ==
    IF b = <<>> THEN <<>>
    ELSE IF b[1] < 128 THEN <<b[1]>> \o Utf8Decode(Tail(b))
    ELSE <<(b[1] - 192) * 64 + (b[2] - 128)>> \o Utf8Decode(Tail(Tail(b)))

\* ------------------------------------------------------------------- codec

\* a ^ b on non-negative integers.
RECURSIVE BitXor(_, _)
BitXor(a, b) ==
    IF a = 0 THEN b
    ELSE IF b = 0 THEN a
    ELSE (((a % 2) + (b % 2)) % 2) + (2 * BitXor(a \div 2, b \div 2))

\* The loop of _generate_checksum: checksum = 0; for b in data: checksum ^= b
RECURSIVE XorFold(_, _)
XorFold(checksum, data) ==
    IF data = <<>> THEN checksum
    ELSE XorFold(BitXor(checksum, Head(data)), Tail(data))

\* A plausible slip: checksum = data[0] before the loop over all of data, which
\* cancels the first byte.
_generate_checksum_seeded(data) ==
    IF data = <<>> THEN <<0>> ELSE <<XorFold(Head(data), data)>>

\* _generate_checksum(data): bytes([checksum]), a bytes object of length one.
_generate_checksum(data) == <<XorFold(0, data)>>

\* The sequence property: self.sequences[0].  The deque is a class attribute,
\* so every instance reads the same register.
sequence(seqs) == <<seqs[1]>>

\* A plausible slip: the header written as version, checksum, sequence.
_prepare_data_for_sending_swapped(data, seqs) ==
    <<VERSION>> \o _generate_checksum(Utf8Encode(data)) \o sequence(seqs)
        \o Utf8Encode(data)

\* _prepare_data_for_sending(data): header + data.encode()
_prepare_data_for_sending(data, seqs) ==
    <<VERSION>> \o sequence(seqs) \o _generate_checksum(Utf8Encode(data))
        \o Utf8Encode(data)

\* A plausible slip: the sequence compared before the version.
_parse_recieved_data_sequence_first(network_message, seqs) ==
    IF Len(network_message) < 3 THEN [type |-> "ValueError"]
    ELSE LET version == <<network_message[1]>>
             seq_byte == <<network_message[2]>>
             checksum == <<network_message[3]>>
             data == SubSeq(network_message, 4, Len(network_message))
             calculated_checksum == _generate_checksum(data)
         IN  IF seq_byte # sequence(seqs)
             THEN [type |-> "WrongHeaderSequence", returned |-> seq_byte,
                   expected |-> sequence(seqs)]
             ELSE IF version # <<VERSION>>
             THEN [type |-> "WrongHeaderVersion", returned |-> version,
                   expected |-> <<VERSION>>]
             ELSE IF checksum # calculated_checksum
             THEN [type |-> "WrongHeaderChecksum", returned |-> checksum,
                   expected |-> calculated_checksum]
             ELSE IF ~Utf8Valid(data) THEN [type |-> "UnicodeDecodeError"]
             ELSE [type |-> "ok", data |-> Utf8Decode(data)]

\* A plausible slip: the checksum byte is split off but never compared.
_parse_recieved_data_no_checksum(network_message, seqs) ==
    IF Len(network_message) < 3 THEN [type |-> "ValueError"]
    ELSE LET version == <<network_message[1]>>
             seq_byte == <<network_message[2]>>
             data == SubSeq(network_message, 4, Len(network_message))
         IN  IF version # <<VERSION>>
             THEN [type |-> "WrongHeaderVersion", returned |-> version,
                   expected |-> <<VERSION>>]
             ELSE IF seq_byte # sequence(seqs)
             THEN [type |-> "WrongHeaderSequence", returned |-> seq_byte,
                   expected |-> sequence(seqs)]
             ELSE IF ~Utf8Valid(data) THEN [type |-> "UnicodeDecodeError"]
             ELSE [type |-> "ok", data |-> Utf8Decode(data)]

\* _parse_recieved_data(network_message): what the call raises or returns.
\*   version, sequence, checksum, *data = network_message   (ValueError when
\*   the message has fewer than three bytes), then the three comparisons in
\*   the order version, sequence, checksum, then data.decode().
_parse_recieved_data(network_message, seqs) ==
    IF Len(network_message) < 3 THEN [type |-> "ValueError"]
    ELSE LET version == <<network_message[1]>>
             seq_byte == <<network_message[2]>>
             checksum == <<network_message[3]>>
             data == SubSeq(network_message, 4, Len(network_message))
             calculated_checksum == _generate_checksum(data)
         IN  IF version # <<VERSION>>
             THEN [type |-> "WrongHeaderVersion", returned |-> version,
                   expected |-> <<VERSION>>]
             ELSE IF seq_byte # sequence(seqs)
             THEN [type |-> "WrongHeaderSequence", returned |-> seq_byte,
                   expected |-> sequence(seqs)]
             ELSE IF checksum # calculated_checksum
             THEN [type |-> "WrongHeaderChecksum", returned |-> checksum,
                   expected |-> calculated_checksum]
             ELSE IF ~Utf8Valid(data) THEN [type |-> "UnicodeDecodeError"]
             ELSE [type |-> "ok", data |-> Utf8Decode(data)]

\* The exceptions the retry loop catches: except IncorrectHeader.
IncorrectHeader ==
    {"WrongHeaderVersion", "WrongHeaderSequence", "WrongHeaderChecksum"}

\* A plausible slip: appendleft(self.sequences[-1]) without the pop, which
\* grows the register.
_increment_sequence_appendleft(seqs) == <<seqs[Len(seqs)]>> \o seqs

\* A plausible slip: rotate(2), which puts a two-slot deque back in place.
_increment_sequence_twice(seqs) == seqs

\* _increment_sequence(): self.sequences.rotate(1)
_increment_sequence(seqs) ==
    <<seqs[Len(seqs)]>> \o SubSeq(seqs, 1, Len(seqs) - 1)

\* A plausible slip: the register also rotates when the header was refused.
sequences_after_parse_always(parsed, seqs) == _increment_sequence(seqs)

\* The try / except IncorrectHeader / else of _communicate: the register
\* rotates in the else branch alone.
sequences_after_parse(parsed, seqs) ==
    IF parsed.type = "ok" THEN _increment_sequence(seqs) ELSE seqs

\* A plausible slip: while times_tried <= self.retries + 1
while_times_tried_extra(tried, limit) == tried <= limit + 1

\* A plausible slip: while times_tried < self.retries
while_times_tried_strict(tried, limit) == tried < limit

\* while times_tried <= self.retries
while_times_tried(tried, limit) == tried <= limit

\* ------------------------------------------------------- response envelope

\* s.find(sep) + 1: the first place sep occurs in s, 0 when it does not.
Find(s, sep) ==
    LET hits == {i \in 1..(Len(s) - Len(sep) + 1) :
                    SubSeq(s, i, i + Len(sep) - 1) = sep}
    IN  IF hits = {} THEN 0 ELSE CHOOSE i \in hits : \A j \in hits : i <= j

\* s.split(sep)
RECURSIVE Split(_, _)
Split(s, sep) ==
    LET i == Find(s, sep)
    IN  IF i = 0 THEN <<s>>
        ELSE <<SubSeq(s, 1, i - 1)>>
                 \o Split(SubSeq(s, i + Len(sep), Len(s)), sep)

\* ''.join(parts)
RECURSIVE Flatten(_)
Flatten(parts) ==
    IF parts = <<>> THEN <<>> ELSE Head(parts) \o Flatten(Tail(parts))

\* s.split(sep, 1)
SplitOnce(s, sep) ==
    LET i == Find(s, sep)
    IN  IF i = 0 THEN <<s>>
        ELSE <<SubSeq(s, 1, i - 1), SubSeq(s, i + Len(sep), Len(s))>>

\* A plausible slip: data.split(' ') without the limit of one split, so the
\* joined message loses its spaces.
_validate_server_response_split_all(text) ==
    LET parts == Split(text, SPACE)
        status == parts[1]
        message == Flatten(Tail(parts))
    IN  IF status = OK_TEXT THEN [type |-> "return", value |-> message]
        ELSE IF status = ERROR_TEXT
        THEN [type |-> "ServerException", server_error |-> message]
        ELSE [type |-> "UnknownResponse", response_data |-> text]

\* _validate_server_response(data)
_validate_server_response(text) ==
    LET parts == SplitOnce(text, SPACE)
        status == parts[1]
        message == IF Len(parts) > 1 THEN parts[2] ELSE <<>>
    IN  IF status = OK_TEXT THEN [type |-> "return", value |-> message]
        ELSE IF status = ERROR_TEXT
        THEN [type |-> "ServerException", server_error |-> message]
        ELSE [type |-> "UnknownResponse", response_data |-> text]

\* A plausible slip: range(0, len(l) - n, n), which loses the last chunk.
chunks_short(l, n) ==
    [k \in 1..((Len(l) - 1) \div n) |-> SubSeq(l, (k - 1) * n + 1, k * n)]

\* chunks(l, n)
chunks(l, n) ==
    [k \in 1..((Len(l) + n - 1) \div n) |->
        SubSeq(l, (k - 1) * n + 1,
               IF k * n <= Len(l) THEN k * n ELSE Len(l))]

\* '{} {} {}'.format(user, timestamp, message)
FormatRecord(chunk) == chunk[1] \o SPACE \o chunk[2] \o SPACE \o chunk[3]

\* The body of get_messages after the exchange, consumed by list(): the
\* unpacking of a chunk that is not a triple raises ValueError.
get_messages_records(response) ==
    IF response = <<>> THEN [type |-> "return", value |-> <<>>]
    ELSE LET groups == chunks(Split(response, FIELD_SEPARATOR), 3)
         IN  IF \E k \in 1..Len(groups) : Len(groups[k]) # 3
             THEN [type |-> "ValueError"]
             ELSE [type |-> "return",
                   value |-> [k \in 1..Len(groups) |-> FormatRecord(groups[k])]]

\* What get_messages / post_message does with the text _communicate returned:
\* _validate_server_response, then the records (get) or nothing (post).
CallResult(m, text) ==
    LET v == _validate_server_response(text)
    IN  IF v.type # "return" THEN v
        ELSE IF m = "post_message" THEN [type |-> "return"]
        ELSE get_messages_records(v.value)

\* ------------------------------------------------------------------- inputs

\* All sequences over S of length at most n.
RECURSIVE SeqsUpTo(_, _)
SeqsUpTo(S, n) ==
    IF n = 0 THEN {<<>>}
    ELSE LET shorter == SeqsUpTo(S, n - 1)
         IN  shorter \cup {Append(t, x) : t \in shorter, x \in S}

\* Bytes of foreign datagrams: NUL, '0', '1', 'C' and 0xC8.
DatagramBytes == {0, 48, 49, 67, 200}

\* The foreign datagrams of the codec specification.
CodecDatagrams == SeqsUpTo(DatagramBytes, MaxDatagramLen)

\* The foreign datagrams of the network specification: datagrams shorter than
\* a header, every header with a right or wrong version, either sequence
\* value and a right or wrong checksum of the empty text, and two framed
\* texts that are not UTF-8.
ForeignDatagrams ==
    SeqsUpTo({VERSION}, 2)
        \cup {<<v, s, c>> : v \in {VERSION, 0}, s \in {48, 49}, c \in {0, 1}}
        \cup {<<VERSION, s, 200, 200>> : s \in {48, 49}}

\* Code points of the texts the codec specification encodes: '0', ':', U+00E9.
CodecChars == {48, 58, 233}

\* The user name and the message text of post_message.
Users == {<<117>>}
Messages == {<<109>>}

\* What the peer answers: OK u::1::m, ERROR e.
Responses ==
    {OK_TEXT \o SPACE \o <<117, 58, 58, 49, 58, 58, 109>>,
     ERROR_TEXT \o SPACE \o <<101>>}

\* -------------------------------------------------------------------- state

VARIABLES
    sequences,          \* the class attribute MessageBoardNetwork.sequences
    retries,            \* self.retries of each instance
    pc,                 \* where the thread of control is
    inst,               \* the instance whose method is running (0: none yet)
    method,             \* "get_messages" or "post_message"
    data,               \* the request text handed to _communicate
    data_with_header,   \* local of _communicate
    times_tried,        \* local of _communicate
    exceptions_so_far,  \* local of _communicate
    recieved_data,      \* local of _communicate
    parsed_data,        \* what _parse_recieved_data returned or raised
    outcome,            \* what the method call returned or raised
    in_flight,          \* reply datagrams on their way to each socket
    call_id,            \* number of the logical request (history)
    sent_frames,        \* datagrams sent during the call (history)
    sequences_at_call,  \* the register when the call began (history)
    reply_origin,       \* call the last received reply answers (history)
    n_recv,             \* datagrams received during the call (history)
    n_success,          \* calls of _communicate that returned (history)
    reply_fields,       \* fields the peer joined into its payload (history)
    attempt_log,        \* what each attempt of the call met (history)
    callback,           \* the controller callback the mainloop is running
    after_pending,      \* view.after(1000, retrieve_messages) is armed
    submitted,          \* Return key events the mainloop has not delivered
    retrieve_status,    \* self.retrieve_status of the controller
    post_status,        \* self.post_status of the controller
    list_items,         \* what view.setListItems last displayed
    callback_exception  \* the exception that left the last callback, if any

vars ==
    <<sequences, retries, pc, inst, method, data, data_with_header,
      times_tried, exceptions_so_far, recieved_data, parsed_data, outcome,
      in_flight, call_id, sent_frames, sequences_at_call,
      reply_origin, n_recv, n_success, reply_fields, attempt_log,
      callback, after_pending, submitted, retrieve_status, post_status,
      list_items, callback_exception>>

locals ==
    <<data_with_header, times_tried, exceptions_so_far, recieved_data,
      parsed_data>>

history ==
    <<call_id, sent_frames, sequences_at_call, reply_origin, n_recv,
      n_success, reply_fields, attempt_log>>

controller ==
    <<callback, after_pending, submitted, retrieve_status, post_status,
      list_items, callback_exception>>

\* The state after the class body ran and both instances were constructed.
\* The one constructor call of the program passes args.retries, so the
\* instances of a process share their retries value.
NetworkInit ==
    /\ sequences = InitialSequences
    /\ retries \in {[i \in Instances |-> r] : r \in 0..MaxRetries}
    /\ pc = "idle"
    /\ inst = 0
    /\ method = "none"
    /\ data = <<>>
    /\ data_with_header = <<>>
    /\ times_tried = 0
    /\ exceptions_so_far = <<>>
    /\ recieved_data = <<>>
    /\ parsed_data = [type |-> "none"]
    /\ outcome = [type |-> "none"]
    /\ in_flight = [i \in Instances |-> {}]
    /\ call_id = 0
    /\ sent_frames = <<>>
    /\ sequences_at_call = InitialSequences
    /\ reply_origin = 0
    /\ n_recv = 0
    /\ n_success = 0
    /\ reply_fields = <<>>
    /\ attempt_log = <<>>

\* MessageBoardNetwork used without a controller around it: no callback runs,
\* no timer is armed.
NoController ==
    /\ callback = "none"
    /\ after_pending = FALSE
    /\ submitted = <<>>
    /\ retrieve_status = [format |-> "", args |-> <<>>]
    /\ post_status = [format |-> "", args |-> <<>>]
    /\ list_items = <<>>
    /\ callback_exception = [type |-> "none"]

Init == NetworkInit /\ NoController

\* ------------------------------------------------------ the retry protocol

\* The start of _communicate(data) on instance i, called from method m:
\* the request is framed once, before the loop.
BeginCommunicate(i, m, text) ==
    /\ call_id < MaxRequests
    /\ pc' = "loop"
    /\ inst' = i
    /\ method' = m
    /\ data' = text
    /\ data_with_header' = _prepare_data_for_sending(text, sequences)
    /\ times_tried' = 0
    /\ exceptions_so_far' = <<>>
    /\ recieved_data' = <<>>
    /\ parsed_data' = [type |-> "none"]
    /\ outcome' = [type |-> "none"]
    /\ call_id' = call_id + 1
    /\ sent_frames' = <<>>
    /\ sequences_at_call' = sequences
    /\ reply_origin' = 0
    /\ n_recv' = 0
    /\ attempt_log' = <<>>
    /\ UNCHANGED <<sequences, retries, in_flight, n_success, reply_fields>>

\* get_messages(): _communicate_with_validation('GET')
get_messages(i) == BeginCommunicate(i, "get_messages", GET_TEXT)

\* post_message(user, message)
post_message(i, user, message) ==
    BeginCommunicate(i, "post_message",
                     POST_PREFIX \o user \o POST_SEPARATOR \o message)

\* A caller that is not inside another call invokes get_messages.
CallGetMessages(i) ==
    /\ pc = "idle"
    /\ get_messages(i)
    /\ UNCHANGED controller

\* A caller that is not inside another call invokes post_message.
CallPostMessage(i, user, message) ==
    /\ pc = "idle"
    /\ post_message(i, user, message)
    /\ UNCHANGED controller

\* The log of what each attempt met, with the result of attempt n entered.
LogAttempt(log, n, result) ==
    [k \in 1..n |-> IF k = n THEN result ELSE log[k]]

\* A plausible slip: the request framed anew inside the loop, with a sequence
\* value that alternates per datagram instead of per request.
SendFramedPerAttempt ==
    /\ pc = "loop"
    /\ while_times_tried(times_tried, retries[inst])
    /\ times_tried' = times_tried + 1
    /\ LET frame == _prepare_data_for_sending(data,
                        IF times_tried % 2 = 0 THEN sequences
                        ELSE _increment_sequence(sequences))
       IN  sent_frames' = Append(sent_frames, frame)
    /\ pc' = "select"
    /\ UNCHANGED <<sequences, retries, inst, method, data, data_with_header,
                   exceptions_so_far, recieved_data, parsed_data, outcome,
                   in_flight, call_id, sequences_at_call, reply_origin,
                   n_recv, n_success, reply_fields, attempt_log>>
    /\ UNCHANGED controller

\* One pass of the while test and the sendto of _send_on_socket: the thread
\* then blocks in select.
Send ==
    /\ pc = "loop"
    /\ while_times_tried(times_tried, retries[inst])
    /\ times_tried' = times_tried + 1
    /\ sent_frames' = Append(sent_frames, data_with_header)
    /\ pc' = "select"
    /\ UNCHANGED <<sequences, retries, inst, method, data, data_with_header,
                   exceptions_so_far, recieved_data, parsed_data, outcome,
                   in_flight, call_id, sequences_at_call, reply_origin,
                   n_recv, n_success, reply_fields, attempt_log>>
    /\ UNCHANGED controller

\* The while test fails: raise ExceededMaxRetries(exceptions_so_far), which
\* no frame of the method catches.
RaiseExceededMaxRetries ==
    /\ pc = "loop"
    /\ ~while_times_tried(times_tried, retries[inst])
    /\ outcome' = [type |-> "ExceededMaxRetries",
                   exceptions |-> exceptions_so_far]
    /\ pc' = "idle"
    /\ UNCHANGED <<sequences, retries, inst, method, data, in_flight>>
    /\ UNCHANGED locals
    /\ UNCHANGED history
    /\ UNCHANGED controller

\* A plausible slip: exceptions_so_far.insert(0, e) in the Timeout handler.
SelectTimeoutFront ==
    /\ pc = "select"
    /\ exceptions_so_far' = <<[type |-> "Timeout"]>> \o exceptions_so_far
    /\ attempt_log' = LogAttempt(attempt_log, times_tried, [type |-> "Timeout"])
    /\ pc' = "loop"
    /\ UNCHANGED <<sequences, retries, inst, method, data, data_with_header,
                   times_tried, recieved_data, parsed_data, outcome, in_flight>>
    /\ UNCHANGED <<call_id, sent_frames, sequences_at_call, reply_origin,
                   n_recv, n_success, reply_fields>>
    /\ UNCHANGED controller

\* select returned no readable socket: Timeout is appended, the loop goes on.
SelectTimeout ==
    /\ pc = "select"
    /\ exceptions_so_far' = Append(exceptions_so_far, [type |-> "Timeout"])
    /\ attempt_log' = LogAttempt(attempt_log, times_tried, [type |-> "Timeout"])
    /\ pc' = "loop"
    /\ UNCHANGED <<sequences, retries, inst, method, data, data_with_header,
                   times_tried, recieved_data, parsed_data, outcome, in_flight>>
    /\ UNCHANGED <<call_id, sent_frames, sequences_at_call, reply_origin,
                   n_recv, n_success, reply_fields>>
    /\ UNCHANGED controller

\* recvfrom(BUFFER_LENGTH): a longer datagram is cut to the buffer.
recvfrom(datagram) ==
    IF Len(datagram) > BUFFER_LENGTH THEN SubSeq(datagram, 1, BUFFER_LENGTH)
    ELSE datagram

\* A plausible slip: the envelope validated inside the loop and its faults
\* retried like header faults.
HandleDatagramRetryingFaults(datagram, origin) ==
    LET network_message == recvfrom(datagram)
        parsed == _parse_recieved_data(network_message, sequences)
        fault == IF parsed.type = "ok"
                 THEN _validate_server_response(parsed.data)
                 ELSE parsed
    IN  /\ recieved_data' = network_message
        /\ parsed_data' = parsed
        /\ reply_origin' = origin
        /\ n_recv' = n_recv + 1
        /\ attempt_log' = LogAttempt(attempt_log, times_tried, parsed)
        /\ sequences' = sequences_after_parse(parsed, sequences)
        /\ IF fault.type
                \in IncorrectHeader \cup {"ServerException", "UnknownResponse"}
           THEN /\ exceptions_so_far' = Append(exceptions_so_far, fault)
                /\ pc' = "loop"
                /\ UNCHANGED <<outcome, n_success>>
           ELSE IF parsed.type = "ok"
           THEN /\ outcome' = CallResult(method, parsed.data)
                /\ n_success' = n_success + 1
                /\ pc' = "idle"
                /\ UNCHANGED exceptions_so_far
           ELSE /\ outcome' = parsed
                /\ pc' = "idle"
                /\ UNCHANGED <<exceptions_so_far, n_success>>
        /\ UNCHANGED <<retries, inst, method, data, data_with_header,
                       times_tried, call_id, sent_frames,
                       sequences_at_call, reply_fields>>
        /\ UNCHANGED controller

\* select found the socket readable: recvfrom, _parse_recieved_data, and then
\* either the except IncorrectHeader branch (append, continue), or the else
\* branch (rotate the register, return, and the caller's envelope and record
\* handling), or an exception nothing catches.
HandleDatagram(datagram, origin) ==
    LET network_message == recvfrom(datagram)
        parsed == _parse_recieved_data(network_message, sequences)
    IN  /\ recieved_data' = network_message
        /\ parsed_data' = parsed
        /\ reply_origin' = origin
        /\ n_recv' = n_recv + 1
        /\ attempt_log' = LogAttempt(attempt_log, times_tried, parsed)
        /\ sequences' = sequences_after_parse(parsed, sequences)
        /\ IF parsed.type \in IncorrectHeader
           THEN /\ exceptions_so_far' = Append(exceptions_so_far, parsed)
                /\ pc' = "loop"
                /\ UNCHANGED <<outcome, n_success>>
           ELSE IF parsed.type = "ok"
           THEN /\ outcome' = CallResult(method, parsed.data)
                /\ n_success' = n_success + 1
                /\ pc' = "idle"
                /\ UNCHANGED exceptions_so_far
           ELSE /\ outcome' = parsed
                /\ pc' = "idle"
                /\ UNCHANGED <<exceptions_so_far, n_success>>
        /\ UNCHANGED <<retries, inst, method, data, data_with_header,
                       times_tried, call_id, sent_frames,
                       sequences_at_call, reply_fields>>
        /\ UNCHANGED controller

\* A reply the peer sent reaches the socket while the thread is in select.
ReceiveReply ==
    /\ pc = "select"
    /\ \E dg \in in_flight[inst] :
          /\ in_flight' = [in_flight EXCEPT ![inst] = @ \ {dg}]
          /\ HandleDatagram(dg.frame, dg.origin)

\* Any other datagram reaches the socket: recvfrom takes what arrives, from
\* whatever address, with whatever bytes.
ReceiveForeign ==
    /\ pc = "select"
    /\ \E frame \in ForeignDatagrams :
          HandleDatagram(frame, 0)
    /\ UNCHANGED in_flight

\* ------------------------------------------------------------ the channel

\* The frame the peer answers with: the protocol version, the sequence byte of
\* the request it answers, the checksum of the response text.
PeerFrame(seq_byte, text) ==
    <<VERSION, seq_byte>> \o _generate_checksum(Utf8Encode(text))
        \o Utf8Encode(text)

\* The peer answers a datagram of the request in progress while the thread
\* waits in select.  The answer may stay in flight after the request ended:
\* the network delays, and the socket is never drained between requests.
PeerReply ==
    /\ pc = "select"
    /\ Cardinality(UNION {in_flight[j] : j \in Instances}) < MaxInFlight
    /\ \E k \in 1..Len(sent_frames), text \in Responses :
          LET dg == [frame |-> PeerFrame(sent_frames[k][2], text),
                     origin |-> call_id]
          IN  /\ dg \notin in_flight[inst]
              /\ in_flight' = [in_flight EXCEPT ![inst] = @ \cup {dg}]
    /\ UNCHANGED <<sequences, retries, pc, inst, method, data, outcome>>
    /\ UNCHANGED locals
    /\ UNCHANGED history
    /\ UNCHANGED controller

\* The network drops a reply on its way to socket i.
Lose(i) ==
    /\ pc = "select"
    /\ \E dg \in in_flight[i] :
          in_flight' = [in_flight EXCEPT ![i] = @ \ {dg}]
    /\ UNCHANGED <<sequences, retries, pc, inst, method, data, outcome>>
    /\ UNCHANGED locals
    /\ UNCHANGED history
    /\ UNCHANGED controller

Next ==
    \/ \E i \in Instances : CallGetMessages(i)
    \/ \E i \in Instances, user \in Users, message \in Messages :
          CallPostMessage(i, user, message)
    \/ Send
    \/ RaiseExceededMaxRetries
    \/ SelectTimeout
    \/ ReceiveReply
    \/ ReceiveForeign
    \/ PeerReply
    \/ \E i \in Instances : Lose(i)

Spec == Init /\ [][Next]_vars

\* The same program on a channel that loses, delays, duplicates and reorders
\* the peer's datagrams but carries no one else's.
ChannelNext ==
    \/ \E i \in Instances : CallGetMessages(i)
    \/ \E i \in Instances, user \in Users, message \in Messages :
          CallPostMessage(i, user, message)
    \/ Send
    \/ RaiseExceededMaxRetries
    \/ SelectTimeout
    \/ ReceiveReply
    \/ PeerReply
    \/ \E i \in Instances : Lose(i)

ChannelSpec == Init /\ [][ChannelNext]_vars

\* The foreign datagrams that carry a whole header and a UTF-8 text: with a
\* right or wrong version, sequence and checksum.
FramedDatagrams ==
    {d \in ForeignDatagrams :
        Len(d) >= 3 /\ Utf8Valid(SubSeq(d, 4, Len(d)))}

\* A framed datagram of another sender reaches the socket.
ReceiveFramed ==
    /\ pc = "select"
    /\ \E frame \in FramedDatagrams :
          HandleDatagram(frame, 0)
    /\ UNCHANGED in_flight

\* The same program on a channel that loses, delays, duplicates and reorders
\* datagrams and delivers replies with a wrong version, sequence or checksum.
FramedNext ==
    \/ \E i \in Instances : CallGetMessages(i)
    \/ \E i \in Instances, user \in Users, message \in Messages :
          CallPostMessage(i, user, message)
    \/ Send
    \/ RaiseExceededMaxRetries
    \/ SelectTimeout
    \/ ReceiveReply
    \/ ReceiveFramed
    \/ PeerReply
    \/ \E i \in Instances : Lose(i)

FramedSpec == Init /\ [][FramedNext]_vars

\* ------------------------------------------------------------ the controller

\* The exceptions except BaseMessageBoardException catches.
BaseMessageBoardException ==
    {"ServerException", "Timeout", "ExceededMaxRetries", "UnknownResponse"}

\* str(e) of a BaseMessageBoardException: a fixed prefix and what follows it.
Str(e) ==
    IF e.type = "ServerException"
    THEN [prefix |-> "Server error: ", rest |-> e.server_error]
    ELSE IF e.type = "ExceededMaxRetries"
    THEN [prefix |-> "Max Retries Exceeded: ", rest |-> e.exceptions]
    ELSE IF e.type = "UnknownResponse"
    THEN [prefix |-> "UnkownResponse: ", rest |-> e.response_data]
    ELSE [prefix |-> "Server timeout", rest |-> <<>>]

\* A status text: a format and its arguments.  '' has neither.
NoStatus == [format |-> "", args |-> <<>>]

\* _set_statuses(): the label shows the statuses that are not empty.
_set_statuses(retrieve, post) ==
    SelectSeq(<<retrieve, post>>, LAMBDA status : status # NoStatus)

\* What the user may submit: a message, or nothing but the Return key.
Entries == Messages \cup {<<>>}

\* The state after MessageBoardController.__init__ and the first line of run():
\* one network instance in use, both statuses empty, the first poll armed.
ControllerInit ==
    /\ NetworkInit
    /\ callback = "none"
    /\ after_pending = TRUE
    /\ submitted = <<>>
    /\ retrieve_status = NoStatus
    /\ post_status = NoStatus
    /\ list_items = <<>>
    /\ callback_exception = [type |-> "none"]

\* A plausible slip: callbacks delivered while another one is still running,
\* as threads or a nested event loop would deliver them.
mainloop_dispatches_reentrant == TRUE

\* view.mainloop(): Tk delivers the next event when the callback before it
\* has returned, and no callback of the program hands control back earlier.
mainloop_dispatches == pc = "idle" /\ callback = "none"

\* The datagram of another sender the controller specification delivers: one
\* byte, shorter than a header.
StrayDatagrams == {<<VERSION>>}

\* A datagram of another sender reaches the socket.
ReceiveStray ==
    /\ pc = "select"
    /\ \E frame \in StrayDatagrams :
          HandleDatagram(frame, 0)
    /\ UNCHANGED in_flight

\* The user types a line and hits Return, at any moment: the event waits in
\* the queue of the mainloop.
KeyPressReturn(message) ==
    /\ Len(submitted) < MaxSubmitted
    /\ submitted' = Append(submitted, message)
    /\ UNCHANGED <<sequences, retries, pc, inst, method, data, outcome,
                   in_flight>>
    /\ UNCHANGED locals
    /\ UNCHANGED history
    /\ UNCHANGED <<callback, after_pending, retrieve_status, post_status,
                   list_items, callback_exception>>

\* post_message_callback(m) up to the wait for the server: the status, then
\* self.net.post_message(self.name, m).
post_message_callback(m) ==
    /\ post_status' = [format |-> "Posting message...", args |-> <<>>]
    /\ callback' = "post_message_callback"
    /\ \E name \in Users : post_message(1, name, m)
    /\ UNCHANGED <<after_pending, retrieve_status, list_items,
                   callback_exception>>

\* newMessage(evt): the mainloop delivers a Return key event; the callback is
\* called when the entry is not empty.
newMessage ==
    /\ mainloop_dispatches
    /\ submitted # <<>>
    /\ submitted' = Tail(submitted)
    /\ LET message == Head(submitted)
       IN  IF Len(message) > 0 THEN post_message_callback(message)
           ELSE /\ UNCHANGED <<sequences, retries, pc, inst, method, data,
                               outcome, in_flight>>
                /\ UNCHANGED locals
                /\ UNCHANGED history
                /\ UNCHANGED <<callback, after_pending, retrieve_status,
                               post_status, list_items, callback_exception>>

\* The except / else of post_message_callback, once post_message returned or
\* raised: an exception that is no BaseMessageBoardException leaves the
\* callback.
PostMessageCallbackReturn ==
    /\ pc = "idle"
    /\ callback = "post_message_callback"
    /\ callback' = "none"
    /\ IF outcome.type \in BaseMessageBoardException
       THEN /\ post_status' = [format |-> "Posting error: {}",
                               args |-> <<Str(outcome)>>]
            /\ callback_exception' = [type |-> "none"]
       ELSE IF outcome.type = "return"
       THEN /\ post_status' = NoStatus
            /\ callback_exception' = [type |-> "none"]
       ELSE /\ callback_exception' = outcome
            /\ UNCHANGED post_status
    /\ UNCHANGED <<sequences, retries, pc, inst, method, data, outcome,
                   in_flight>>
    /\ UNCHANGED locals
    /\ UNCHANGED history
    /\ UNCHANGED <<after_pending, submitted, retrieve_status, list_items>>

\* A plausible slip: the after() call left out of retrieve_messages, so that
\* the one in run() is the only one.
retrieve_messages_unarmed ==
    /\ mainloop_dispatches
    /\ after_pending
    /\ after_pending' = FALSE
    /\ retrieve_status' = [format |-> "Retrieving messages...", args |-> <<>>]
    /\ callback' = "retrieve_messages"
    /\ get_messages(1)
    /\ UNCHANGED <<submitted, post_status, list_items, callback_exception>>

\* retrieve_messages() up to the wait for the server: the timer fired and the
\* mainloop delivers it; the next poll is armed, the status set, get_messages
\* called.
retrieve_messages ==
    /\ mainloop_dispatches
    /\ after_pending
    /\ after_pending' = TRUE
    /\ retrieve_status' = [format |-> "Retrieving messages...", args |-> <<>>]
    /\ callback' = "retrieve_messages"
    /\ get_messages(1)
    /\ UNCHANGED <<submitted, post_status, list_items, callback_exception>>

\* The except / else of retrieve_messages, once list(get_messages()) returned
\* or raised.
RetrieveMessagesReturn ==
    /\ pc = "idle"
    /\ callback = "retrieve_messages"
    /\ callback' = "none"
    /\ IF outcome.type \in BaseMessageBoardException
       THEN /\ retrieve_status' = [format |-> "Retrieving error: {}",
                                   args |-> <<Str(outcome)>>]
            /\ callback_exception' = [type |-> "none"]
            /\ UNCHANGED list_items
       ELSE IF outcome.type = "return"
       THEN /\ list_items' = outcome.value
            /\ retrieve_status' = [format |-> "Retrieved {} mesages",
                                   args |-> <<Len(outcome.value)>>]
            /\ callback_exception' = [type |-> "none"]
       ELSE /\ callback_exception' = outcome
            /\ UNCHANGED <<retrieve_status, list_items>>
    /\ UNCHANGED <<sequences, retries, pc, inst, method, data, outcome,
                   in_flight>>
    /\ UNCHANGED locals
    /\ UNCHANGED history
    /\ UNCHANGED <<after_pending, submitted, post_status>>

ControllerNext ==
    \/ \E message \in Entries : KeyPressReturn(message)
    \/ newMessage
    \/ PostMessageCallbackReturn
    \/ retrieve_messages
    \/ RetrieveMessagesReturn
    \/ Send
    \/ RaiseExceededMaxRetries
    \/ SelectTimeout
    \/ ReceiveReply
    \/ ReceiveStray
    \/ PeerReply
    \/ \E i \in Instances : Lose(i)

ControllerSpec == ControllerInit /\ [][ControllerNext]_vars

\* ------------------------------------------------- the codec, on its own

\* A text to frame and either order of the register.
CodecInit ==
    /\ sequences \in {InitialSequences, _increment_sequence(InitialSequences)}
    /\ retries = [i \in Instances |-> 0]
    /\ pc = "prepare"
    /\ inst = 1
    /\ method = "none"
    /\ data \in SeqsUpTo(CodecChars, MaxLen)
    /\ data_with_header = <<>>
    /\ times_tried = 0
    /\ exceptions_so_far = <<>>
    /\ recieved_data = <<>>
    /\ parsed_data = [type |-> "none"]
    /\ outcome = [type |-> "none"]
    /\ in_flight = [i \in Instances |-> {}]
    /\ call_id = 0
    /\ sent_frames = <<>>
    /\ sequences_at_call = sequences
    /\ reply_origin = 0
    /\ n_recv = 0
    /\ n_success = 0
    /\ reply_fields = <<>>
    /\ attempt_log = <<>>
    /\ NoController

\* data_with_header = self._prepare_data_for_sending(data)
CodecPrepare ==
    /\ pc = "prepare"
    /\ data_with_header' = _prepare_data_for_sending(data, sequences)
    /\ pc' = "deliver"
    /\ UNCHANGED <<sequences, retries, inst, method, data, times_tried,
                   exceptions_so_far, recieved_data, parsed_data, outcome,
                   in_flight>>
    /\ UNCHANGED history
    /\ UNCHANGED controller

\* The network message to parse is one of the given set.
CodecDeliver(messages) ==
    /\ pc = "deliver"
    /\ recieved_data' \in messages
    /\ pc' = "parse"
    /\ UNCHANGED <<sequences, retries, inst, method, data, data_with_header,
                   times_tried, exceptions_so_far, parsed_data, outcome,
                   in_flight>>
    /\ UNCHANGED history
    /\ UNCHANGED controller

\* The frame comes back as it was sent.
CodecDeliverFrame == CodecDeliver({data_with_header})

\* The frame comes back with one header byte changed.
CodecDeliverMutated ==
    CodecDeliver({[data_with_header EXCEPT ![k] = b] :
                     k \in 1..3, b \in DatagramBytes}
                 \ {data_with_header})

\* Some other datagram arrives.
CodecDeliverForeign == CodecDeliver(CodecDatagrams)

\* self._parse_recieved_data(recieved_data)
CodecParse ==
    /\ pc = "parse"
    /\ parsed_data' = _parse_recieved_data(recieved_data, sequences)
    /\ pc' = "parsed"
    /\ UNCHANGED <<sequences, retries, inst, method, data, data_with_header,
                   times_tried, exceptions_so_far, recieved_data, outcome,
                   in_flight>>
    /\ UNCHANGED history
    /\ UNCHANGED controller

CodecNext ==
    \/ CodecPrepare
    \/ CodecDeliverFrame
    \/ CodecDeliverMutated
    \/ CodecDeliverForeign
    \/ CodecParse

CodecSpec == CodecInit /\ [][CodecNext]_vars

\* ------------------------------- the envelope and the records, on their own

\* sep.join(parts), as the peer builds the payload of a GET response.
RECURSIVE Join(_, _)
Join(parts, sep) ==
    IF parts = <<>> THEN <<>>
    ELSE IF Len(parts) = 1 THEN parts[1]
    ELSE parts[1] \o sep \o Join(Tail(parts), sep)

\* The pieces response texts are put together from: OK, ERROR, a space, x, ::
EnvelopeTokens == {OK_TEXT, ERROR_TEXT, SPACE, <<120>>, FIELD_SEPARATOR}

\* Every text of at most MaxTokens pieces, the empty text among them.
EnvelopeTexts == {Flatten(t) : t \in SeqsUpTo(EnvelopeTokens, MaxTokens)}

\* The fields of a payload: the empty field, u, x:y.
FieldTexts == {<<>>, <<117>>, <<120, 58, 121>>}

\* The lists of fields the peer joins into a payload.
FieldLists == SeqsUpTo(FieldTexts, MaxFields)

\* _communicate returned a text to get_messages or post_message: any of the
\* envelope texts, or OK and a payload the peer joined from a list of fields.
EnvelopeInit ==
    /\ sequences = InitialSequences
    /\ retries = [i \in Instances |-> 0]
    /\ pc = "validate"
    /\ inst = 1
    /\ method \in {"get_messages", "post_message"}
    /\ data = <<>>
    /\ data_with_header = <<>>
    /\ times_tried = 0
    /\ exceptions_so_far = <<>>
    /\ recieved_data = <<>>
    /\ \/ /\ reply_fields = <<>>
          /\ \E text \in EnvelopeTexts :
                parsed_data = [type |-> "ok", data |-> text]
       \/ /\ reply_fields \in FieldLists
          /\ parsed_data =
                [type |-> "ok",
                 data |-> OK_TEXT \o SPACE
                              \o Join(reply_fields, FIELD_SEPARATOR)]
    /\ outcome = [type |-> "none"]
    /\ in_flight = [i \in Instances |-> {}]
    /\ call_id = 0
    /\ sent_frames = <<>>
    /\ sequences_at_call = sequences
    /\ reply_origin = 0
    /\ n_recv = 0
    /\ n_success = 0
    /\ attempt_log = <<>>
    /\ NoController

\* return self._validate_server_response(self._communicate(data))
EnvelopeValidate ==
    /\ pc = "validate"
    /\ outcome' = _validate_server_response(parsed_data.data)
    /\ pc' = "validated"
    /\ UNCHANGED <<sequences, retries, inst, method, data, in_flight>>
    /\ UNCHANGED locals
    /\ UNCHANGED history
    /\ UNCHANGED controller

\* What the method does with what _communicate_with_validation returned or
\* raised: get_messages builds the records, post_message returns nothing, an
\* exception passes through both.
EnvelopeConsume ==
    /\ pc = "validated"
    /\ outcome' = IF outcome.type # "return" THEN outcome
                  ELSE IF method = "post_message" THEN [type |-> "return"]
                  ELSE get_messages_records(outcome.value)
    /\ pc' = "returned"
    /\ UNCHANGED <<sequences, retries, inst, method, data, in_flight>>
    /\ UNCHANGED locals
    /\ UNCHANGED history
    /\ UNCHANGED controller

EnvelopeNext ==
    \/ EnvelopeValidate
    \/ EnvelopeConsume

EnvelopeSpec == EnvelopeInit /\ [][EnvelopeNext]_vars

\* ------------------------------------------------------------------ claims

\* A logical request has ended: its method returned or raised.
CallEnded == pc = "idle" /\ call_id > 0

\* C1: when no datagram reaches the socket during a logical request, the
\* request performs exactly retries + 1 sends and raises ExceededMaxRetries
\* with exactly retries + 1 entries, every one a Timeout; while it runs it
\* never sends more than that.
C1_RetryBound ==
    /\ (pc # "idle" /\ n_recv = 0) => Len(sent_frames) <= retries[inst] + 1
    /\ (CallEnded /\ n_recv = 0) =>
          /\ outcome.type = "ExceededMaxRetries"
          /\ Len(sent_frames) = retries[inst] + 1
          /\ Len(outcome.exceptions) = retries[inst] + 1
          /\ \A k \in 1..Len(outcome.exceptions) :
                outcome.exceptions[k].type = "Timeout"

\* C1 witness: a request with a retry to spare ran out on timeouts alone.
C1_Witness ==
    /\ CallEnded
    /\ n_recv = 0
    /\ retries[inst] >= 1
    /\ outcome.type = "ExceededMaxRetries"

\* C2: after N fully successful round trips the head of the register is the
\* (N mod 2)-indexed value of the initial register.
C2_SequenceAlternation ==
    sequence(sequences) = <<InitialSequences[(n_success % 2) + 1]>>

\* C2 witness: two round trips succeeded and the head is back at b'0'.
C2_Witness ==
    /\ n_success >= 2
    /\ sequence(sequences) = <<48>>

\* C3: a reply that _communicate accepts was produced by the peer in answer to
\* the logical request in progress, never to an earlier one.
C3_NoStaleReplyAccepted ==
    (parsed_data.type = "ok" /\ reply_origin # 0) => reply_origin = call_id

\* C4: the only faults that escape get_messages / post_message are
\* ExceededMaxRetries, ServerException and UnknownResponse.
C4_OnlyDeclaredFaultsEscape ==
    outcome.type \in {"none", "return", "ExceededMaxRetries",
                      "ServerException", "UnknownResponse"}

\* C5: a step that appends a Timeout or a header fault to the attempt list
\* leaves the register unchanged, and a request that ends in
\* ExceededMaxRetries leaves the register as it was when the request began.
C5_RegisterAdvancesOnlyOnSuccess ==
    [][/\ (Len(exceptions_so_far') > Len(exceptions_so_far)) =>
             sequences' = sequences
       /\ (outcome'.type = "ExceededMaxRetries") =>
             sequences' = sequences_at_call']_vars

\* C5 witness: after an earlier success a request ran out of attempts, one of
\* them refused for its header.
C5_Witness ==
    /\ CallEnded
    /\ outcome.type = "ExceededMaxRetries"
    /\ n_success >= 1
    /\ \E k \in 1..Len(exceptions_so_far) :
          exceptions_so_far[k].type \in IncorrectHeader

\* The peer's answers that carry an OK envelope.
OkResponses == {r \in Responses : SubSeq(r, 1, Len(OK_TEXT)) = OK_TEXT}

\* C6: every datagram sent within one logical request is the frame encoded
\* once, before the loop, with the register head of that moment; and when the
\* first attempt times out and the second receives the peer's valid OK reply,
\* the request returns, both attempts having carried the same sequence value.
C6_IdempotentRetransmission ==
    /\ \A k \in 1..Len(sent_frames) :
          /\ sent_frames[k] = data_with_header
          /\ sent_frames[k] = _prepare_data_for_sending(data, sequences_at_call)
    /\ ( /\ CallEnded
         /\ exceptions_so_far = <<[type |-> "Timeout"]>>
         /\ n_recv = 1
         /\ reply_origin = call_id
         /\ recieved_data \in {PeerFrame(sequences_at_call[1], r) :
                                  r \in OkResponses} )
       => /\ outcome.type = "return"
          /\ Len(sent_frames) = 2
          /\ sent_frames[1][2] = sent_frames[2][2]

\* C6 witness: the first attempt timed out, the second got the valid reply.
C6_Witness ==
    /\ CallEnded
    /\ exceptions_so_far = <<[type |-> "Timeout"]>>
    /\ reply_origin = call_id
    /\ outcome.type = "return"
    /\ Len(sent_frames) = 2

\* self.sequence read on instance j: no instance has a register of its own,
\* the property reads the class attribute.
sequence_of(j, seqs) == sequence(seqs)

\* C7: a successful exchange on one instance leaves the expected sequence
\* value of every other instance unchanged.
C7_InstancesDoNotInterfere ==
    [][(n_success' = n_success + 1) =>
          \A j \in Instances \ {inst'} :
             sequence_of(j, sequences') = sequence_of(j, sequences)]_vars

\* The three comparisons of the header of a network message of three bytes or
\* more, each on its own.
VersionRight(m) == m[1] = VERSION
SequenceRight(m, seqs) == m[2] = seqs[1]
ChecksumRight(m) == <<m[3]>> = <<XorFold(0, SubSeq(m, 4, Len(m)))>>

\* C8: for a network message of at least three bytes the fault is that of the
\* first failing check in the order version, sequence, checksum.
C8_ValidationOrder ==
    (pc = "parsed" /\ Len(recieved_data) >= 3) =>
        /\ parsed_data.type = "WrongHeaderVersion"
              <=> ~VersionRight(recieved_data)
        /\ parsed_data.type = "WrongHeaderSequence"
              <=> /\ VersionRight(recieved_data)
                  /\ ~SequenceRight(recieved_data, sequences)
        /\ parsed_data.type = "WrongHeaderChecksum"
              <=> /\ VersionRight(recieved_data)
                  /\ SequenceRight(recieved_data, sequences)
                  /\ ~ChecksumRight(recieved_data)

\* C8 witness: all three header bytes are wrong and the version is reported.
C8_Witness ==
    /\ pc = "parsed"
    /\ Len(recieved_data) >= 3
    /\ ~VersionRight(recieved_data)
    /\ ~SequenceRight(recieved_data, sequences)
    /\ ~ChecksumRight(recieved_data)
    /\ parsed_data.type = "WrongHeaderVersion"

\* The network message is the prepared frame with header byte k, and nothing
\* else, changed.
HeaderByteChanged(k) ==
    /\ Len(recieved_data) = Len(data_with_header)
    /\ recieved_data # data_with_header
    /\ recieved_data = [data_with_header EXCEPT ![k] = recieved_data[k]]

\* C9: the prepared frame with one header byte changed is refused: with
\* WrongHeaderVersion for byte 0, WrongHeaderSequence for byte 1,
\* WrongHeaderChecksum for byte 2.
C9_HeaderMutationDetected ==
    pc = "parsed" =>
        /\ HeaderByteChanged(1) => parsed_data.type = "WrongHeaderVersion"
        /\ HeaderByteChanged(2) => parsed_data.type = "WrongHeaderSequence"
        /\ HeaderByteChanged(3) => parsed_data.type = "WrongHeaderChecksum"

\* C9 witness: the checksum byte of a frame with a text was changed.
C9_Witness ==
    /\ pc = "parsed"
    /\ data # <<>>
    /\ HeaderByteChanged(3)
    /\ parsed_data.type = "WrongHeaderChecksum"

\* C10: parsing the frame prepared for text p under the register head it was
\* prepared with returns p and raises nothing.
C10_RoundTrip ==
    (pc = "parsed" /\ recieved_data = data_with_header) =>
        parsed_data = [type |-> "ok", data |-> data]

\* C10 witness: a text with a two-byte character went through, under the
\* rotated register.
C10_Witness ==
    /\ pc = "parsed"
    /\ recieved_data = data_with_header
    /\ \E k \in 1..Len(data) : data[k] >= 128
    /\ Len(data_with_header) > 3 + Len(data)
    /\ sequence(sequences) = <<49>>
    /\ parsed_data.type = "ok"

\* Bit k of the non-negative integer n.
Bit(n, k) == (n \div (2 ^ k)) % 2

\* How many bytes of p have bit k set.
OnesAt(p, k) == Cardinality({i \in 1..Len(p) : Bit(p[i], k) = 1})

\* c is one byte whose bit k is the parity of bit k over the bytes of p.
IsXorOf(c, p) ==
    /\ Len(c) = 1
    /\ c[1] \in 0..255
    /\ \A k \in 0..7 : Bit(c[1], k) = OnesAt(p, k) % 2

\* C11: _generate_checksum(p) is one byte, the exclusive-or of all bytes of p
\* and 0 for the empty p, within 0..255: in the frame prepared for a text and
\* in the checksum calculated over the body of a received datagram.
C11_ChecksumIsXorFold ==
    /\ pc # "prepare" =>
          /\ Len(data_with_header) = 3 + Len(Utf8Encode(data))
          /\ IsXorOf(<<data_with_header[3]>>, Utf8Encode(data))
          /\ data = <<>> => data_with_header[3] = 0
    /\ (pc = "parsed" /\ parsed_data.type = "WrongHeaderChecksum") =>
          /\ IsXorOf(parsed_data.expected,
                     SubSeq(recieved_data, 4, Len(recieved_data)))
          /\ Len(recieved_data) = 3 => parsed_data.expected = <<0>>

\* C11 witness: a checksum over three bytes, two of them above 127, that
\* differs from each of them and from 0.
C11_Witness ==
    /\ pc = "deliver"
    /\ Len(data_with_header) = 6
    /\ data_with_header[4] >= 128
    /\ data_with_header[5] >= 128
    /\ data_with_header[3] \notin {0} \cup {data_with_header[k] : k \in 4..6}

\* The place of the first space of text, 0 when it has none.
FirstSpace(text) ==
    IF \A i \in 1..Len(text) : text[i] # 32 THEN 0
    ELSE CHOOSE i \in 1..Len(text) :
             text[i] = 32 /\ \A j \in 1..(i - 1) : text[j] # 32

\* The text before the first space: all of it when there is no space.
FirstToken(text) ==
    IF FirstSpace(text) = 0 THEN text
    ELSE [k \in 1..(FirstSpace(text) - 1) |-> text[k]]

\* The text after the first space: empty when there is no space.
Remainder(text) ==
    IF FirstSpace(text) = 0 THEN <<>>
    ELSE [k \in 1..(Len(text) - FirstSpace(text)) |->
             text[FirstSpace(text) + k]]

\* C12: _validate_server_response splits the text on its first space: a
\* first token OK returns the remainder, a first token ERROR raises
\* ServerException with the remainder as reason, every other text (the empty
\* one too) raises UnknownResponse with the whole text.
C12_EnvelopeParsing ==
    pc = "validated" =>
        LET text == parsed_data.data
        IN  /\ FirstToken(text) = OK_TEXT =>
                  outcome = [type |-> "return", value |-> Remainder(text)]
            /\ FirstToken(text) = ERROR_TEXT =>
                  outcome = [type |-> "ServerException",
                             server_error |-> Remainder(text)]
            /\ FirstToken(text) \notin {OK_TEXT, ERROR_TEXT} =>
                  outcome = [type |-> "UnknownResponse",
                             response_data |-> text]

\* C12 witness: an ERROR text whose reason holds a space of its own.
C12_Witness ==
    /\ pc = "validated"
    /\ FirstToken(parsed_data.data) = ERROR_TEXT
    /\ outcome.type = "ServerException"
    /\ \E k \in 1..Len(outcome.server_error) : outcome.server_error[k] = 32

\* The record get_messages yields for the i-th triple of fields.
RecordOf(f, i) ==
    f[3 * i - 2] \o <<32>> \o f[3 * i - 1] \o <<32>> \o f[3 * i]

\* C17: when the OK payload is 3k fields joined by '::' (k = 0 for the empty
\* payload), get_messages yields k records in order, the i-th built from the
\* fields 3i, 3i+1, 3i+2 (counted from 0) as user, timestamp, message.
C17_GetParsing ==
    (/\ pc = "returned"
     /\ method = "get_messages"
     /\ Len(reply_fields) % 3 = 0
     /\ \/ parsed_data.data
              = OK_TEXT \o SPACE \o Join(reply_fields, FIELD_SEPARATOR)
        \/ reply_fields = <<>> /\ parsed_data.data = OK_TEXT)
    => outcome = [type |-> "return",
                  value |-> [i \in 1..(Len(reply_fields) \div 3) |->
                                RecordOf(reply_fields, i)]]

\* C17 witness: six fields gave two records that differ.
C17_Witness ==
    /\ pc = "returned"
    /\ method = "get_messages"
    /\ Len(reply_fields) = 6
    /\ outcome.type = "return"
    /\ Len(outcome.value) = 2
    /\ outcome.value[1] # outcome.value[2]
    /\ outcome.value[2] = <<117, 32, 32, 120, 58, 121>>

\* C13: under every interleaving of the poll timer and the user's
\* submissions at most one logical request is in progress: a request begins
\* only when no exchange and no callback is under way, and the callback that
\* began an exchange is the one running until the exchange has ended.
C13_OneExchangeAtATime ==
    [][/\ call_id' # call_id => (pc = "idle" /\ callback = "none")
       /\ pc # "idle" => callback' = callback]_vars

\* C13 witness: during the exchange of a user's post, begun after a poll, the
\* timer is armed again and another submission waits.
C13_Witness ==
    /\ pc = "select"
    /\ callback = "post_message_callback"
    /\ call_id = 2
    /\ after_pending
    /\ submitted # <<>>

\* The status a failed request of method m leaves behind.
ErrorStatus(m, e) ==
    [format |-> IF m = "get_messages" THEN "Retrieving error: {}"
                ELSE "Posting error: {}",
     args |-> <<Str(e)>>]

\* The status that method m writes to.
StatusOf(m) == IF m = "get_messages" THEN retrieve_status ELSE post_status

\* C20: retrieve_messages arms the next poll before it contacts the server,
\* and a BaseMessageBoardException of get_messages or post_message becomes
\* the status text 'Retrieving error: ...' or 'Posting error: ...' and does
\* not leave the callback; so whatever requests failed, the next poll can be
\* delivered whenever the mainloop is free.
C20_PollingSurvivesFaults ==
    /\ (callback = "retrieve_messages" /\ sent_frames # <<>>) => after_pending
    /\ (CallEnded /\ callback = "none"
            /\ outcome.type \in BaseMessageBoardException) =>
          /\ callback_exception.type = "none"
          /\ StatusOf(method) = ErrorStatus(method, outcome)
    /\ (pc = "idle" /\ callback = "none" /\ call_id < MaxRequests) =>
          ENABLED retrieve_messages

\* C20 witness: a poll failed with ExceededMaxRetries, its status shows the
\* error, and the next poll is armed.
C20_Witness ==
    /\ CallEnded
    /\ callback = "none"
    /\ method = "get_messages"
    /\ outcome.type = "ExceededMaxRetries"
    /\ retrieve_status.format = "Retrieving error: {}"
    /\ after_pending
    /\ call_id < MaxRequests

\* What is left of the attempt budget of the call in progress: it counts the
\* passes of the loop still possible, and the wait of the pass under way.
Remaining ==
    IF pc = "idle" THEN 0
    ELSE 2 * (retries[inst] + 1 - times_tried)
             + (IF pc = "select" THEN 2 ELSE 1)

\* C14: whatever the channel does (losses, timeouts, replies with a wrong
\* version, sequence or checksum), one call of _communicate sends at most
\* retries + 1 datagrams, every fault of either kind uses up one attempt, the
\* thread can always take its next step and every step lowers what remains of
\* the budget, and the call ends with a decoded payload or with
\* ExceededMaxRetries.
C14_BoundedTermination ==
    /\ [](call_id > 0 =>
            /\ Len(sent_frames) <= retries[inst] + 1
            /\ times_tried <= retries[inst] + 1
            /\ Remaining >= 0
            /\ pc = "loop" => Len(exceptions_so_far) = times_tried
            /\ pc = "loop" => ENABLED (Send \/ RaiseExceededMaxRetries)
            /\ pc = "select" => ENABLED SelectTimeout
            /\ pc = "idle" =>
                  \/ parsed_data.type = "ok"
                  \/ outcome.type = "ExceededMaxRetries")
    /\ [][(pc # "idle" /\ <<pc, times_tried>>' # <<pc, times_tried>>)
              => Remaining' < Remaining]_vars

\* C14 witness: a call used up its budget of two attempts on a timeout and a
\* framing fault.
C14_Witness ==
    /\ CallEnded
    /\ outcome.type = "ExceededMaxRetries"
    /\ Len(sent_frames) = 2
    /\ \E k \in 1..2 : outcome.exceptions[k].type = "Timeout"
    /\ \E k \in 1..2 : outcome.exceptions[k].type \in IncorrectHeader

\* C15: when every attempt of a request failed, ExceededMaxRetries carries one
\* fault for each datagram sent, in the order of the attempts: entry i is the
\* Timeout or the header fault that attempt i met.
C15_FaultListMatchesAttempts ==
    (CallEnded /\ outcome.type = "ExceededMaxRetries") =>
        /\ Len(outcome.exceptions) = Len(sent_frames)
        /\ Len(attempt_log) = Len(sent_frames)
        /\ \A k \in 1..Len(sent_frames) :
              /\ outcome.exceptions[k] = attempt_log[k]
              /\ outcome.exceptions[k].type \in {"Timeout"} \cup IncorrectHeader

\* C15 witness: a header fault on the first attempt and a timeout on the
\* second are listed in that order.
C15_Witness ==
    /\ CallEnded
    /\ outcome.type = "ExceededMaxRetries"
    /\ Len(outcome.exceptions) = 2
    /\ outcome.exceptions[1].type = "WrongHeaderChecksum"
    /\ outcome.exceptions[2].type = "Timeout"

\* The exceptions _validate_server_response raises.
EnvelopeFaults == {"ServerException", "UnknownResponse"}

\* C16: when a reply that passes the header checks carries an ERROR or an
\* unrecognised envelope, the request ends at once with ServerException or
\* UnknownResponse, and no further datagram is sent for that request,
\* whatever is left of the retry budget.
C16_EnvelopeFaultsNotRetried ==
    [][/\ (/\ n_recv' = n_recv + 1
           /\ parsed_data'.type = "ok"
           /\ _validate_server_response(parsed_data'.data).type
                  \in EnvelopeFaults)
          => /\ pc' = "idle"
             /\ outcome' = _validate_server_response(parsed_data'.data)
       /\ (outcome.type \in EnvelopeFaults /\ call_id' = call_id)
          => /\ sent_frames' = sent_frames
             /\ pc' = "idle"]_vars

\* C16 witness: a request ended with ServerException on its first attempt,
\* with an attempt to spare.
C16_Witness ==
    /\ CallEnded
    /\ outcome.type = "ServerException"
    /\ Len(sent_frames) = 1
    /\ times_tried <= retries[inst]
    /\ in_flight[inst] = {}

\* The frame passes the three header checks under the register seqs.
PassesHeaderChecks(frame, seqs) ==
    /\ Len(frame) >= 3
    /\ frame[1] = VERSION
    /\ frame[2] = seqs[1]
    /\ <<frame[3]>> = _generate_checksum(SubSeq(frame, 4, Len(frame)))

\* C18: a request rotates the register once exactly when one of its attempts
\* receives a frame that passes the three header checks, and does so before
\* the envelope is looked at: a request that ended with ServerException or
\* UnknownResponse has advanced the register by one, a request that ended
\* with ExceededMaxRetries by none.
C18_AdvanceOncePerValidatedFrame ==
    /\ [][/\ (n_recv' = n_recv + 1
                 /\ PassesHeaderChecks(recieved_data', sequences))
             => sequences' = _increment_sequence(sequences)
          /\ sequences' # sequences
             => /\ n_recv' = n_recv + 1
                /\ PassesHeaderChecks(recieved_data', sequences)
                /\ sequences' = _increment_sequence(sequences)
                /\ pc' = "idle"]_vars
    /\ []((CallEnded /\ outcome.type \in {"ServerException", "UnknownResponse"})
              => sequences = _increment_sequence(sequences_at_call))
    /\ []((CallEnded /\ outcome.type = "ExceededMaxRetries")
              => sequences = sequences_at_call)

\* C19: in every state the register holds b'0' and b'1', each once, so the
\* expected sequence is one of the two; and the sequence byte of every frame
\* sent is the head the register had when the request was framed.
C19_RegisterWellFormed ==
    /\ Len(sequences) = 2
    /\ {sequences[k] : k \in 1..Len(sequences)} = {48, 49}
    /\ sequence(sequences) \in {<<48>>, <<49>>}
    /\ \A k \in 1..Len(sent_frames) :
          <<sent_frames[k][2]>> = sequence(sequences_at_call)
    /\ pc # "idle" => <<data_with_header[2]>> = sequence(sequences_at_call)

\* C19 witness: after a request that succeeded, a request sent two frames
\* with the sequence byte b'1'.
C19_Witness ==
    /\ n_success >= 1
    /\ sequences_at_call = <<49, 48>>
    /\ Len(sent_frames) = 2
    /\ sent_frames[2][2] = 49

====
